---- MODULE Spec2Model ----
(***************************************************************************)
(* National Rail departure times integration.                              *)
(*                                                                         *)
(* Two independent components are modelled:                                *)
(*   - NationalrailSensor (sensor.py) with its Api (api.py): the update    *)
(*     cycle async_update and the attribute bundle extra_state_attributes, *)
(*     under specification Spec;                                           *)
(*   - ApiData (apidata.py): populate and the accessors, under             *)
(*     specification SpecData.                                             *)
(*                                                                         *)
(* JSON values are tagged records: t is the Python type of the decoded     *)
(* value, v its payload.  A dict's payload is a function from its keys.    *)
(* A Python call is modelled by its outcome: a returned value or a raised  *)
(* exception.                                                              *)
(***************************************************************************)
EXTENDS Integers, Sequences, FiniteSets, TLC

VARIABLES
    hour,               \* datetime.now().hour, read by is_service_available
    pc,                 \* position of the async_update coroutine
    state,              \* NationalrailSensor._state
    last_data,          \* NationalrailSensor.last_data
    service_data,       \* NationalrailSensor.service_data
    logged_unavailable, \* hasattr(self, "_logged_unavailable")
    result,             \* what api_request returned in the current cycle
    gates,              \* the results of is_service_available() in the cycle, in order
    fetch_issued,       \* session.get was issued in the current cycle
    raised,             \* the last cycle raised out of async_update
    attributes,         \* outcome of the last extra_state_attributes read
    raw_result,         \* ApiData.raw_result
    station_name_cache, \* ApiData._station_name
    populated,          \* the document last handed to populate
    details_calls,      \* get_service_details calls since the last populate
    name_read_before,   \* a get_station_name call has read a locationName
    ret                 \* the last ApiData call and its outcome

sensor_vars == <<hour, pc, state, last_data, service_data, logged_unavailable,
                 result, gates, fetch_issued, raised, attributes>>
data_vars == <<raw_result, station_name_cache, populated, details_calls,
               name_read_before, ret>>
vars == <<sensor_vars, data_vars>>

----------------------------------------------------------------------------
(* JSON values and Python's operations on them *)

Null == [t |-> "null"]
Str(s) == [t |-> "str", v |-> s]
Num(n) == [t |-> "num", v |-> n]
List(s) == [t |-> "list", v |-> s]
Dict(f) == [t |-> "dict", v |-> f]
EmptyDict == Dict(<<>>)
EmptyList == List(<<>>)

IsDict(j) == j.t = "dict"
IsList(j) == j.t = "list"
IsStr(j) == j.t = "str"

\* dict.get(key, default)
DictGet(d, key, default) == IF key \in DOMAIN d.v THEN d.v[key] ELSE default

\* Python truthiness: bool(j)
Truthy(j) ==
    CASE j.t = "null" -> FALSE
      [] j.t = "str" -> j.v # ""
      [] j.t = "num" -> j.v # 0
      [] j.t = "list" -> j.v # <<>>
      [] j.t = "dict" -> DOMAIN j.v # {}

\* The outcome of a Python call
Ok(x) == [raised |-> FALSE, val |-> x]
Raise(e) == [raised |-> TRUE, exc |-> e]

----------------------------------------------------------------------------
(* Strings: str.lower, str.capitalize, dateutil's parser.parse, strftime *)

\* str.lower() on the strings of the model
Lower(s) ==
    CASE s = "Delayed" -> "delayed"
      [] s = "CANCELLED" -> "cancelled"
      [] s = "On time" -> "on time"
      [] s = "Unknown" -> "unknown"
      [] OTHER -> s

\* str.capitalize() on the strings of the model
Capitalize(s) ==
    CASE s = "delayed" -> "Delayed"
      [] s = "cancelled" -> "Cancelled"
      [] OTHER -> s

\* parser.parse(timestr): the time of day read from the string, or a ParserError
ParserParse(timestr) ==
    CASE timestr = "14:05:00" -> [ok |-> TRUE, h |-> 14, m |-> 5, s |-> 0]
      [] timestr = "14:32" -> [ok |-> TRUE, h |-> 14, m |-> 32, s |-> 0]
      [] timestr = "9:15" -> [ok |-> TRUE, h |-> 9, m |-> 15, s |-> 0]
      [] OTHER -> [ok |-> FALSE]

TwoDigits(n) == IF n < 10 THEN "0" \o ToString(n) ELSE ToString(n)

\* datetime.strftime("%H:%M")
StrftimeHM(dt) == TwoDigits(dt.h) \o ":" \o TwoDigits(dt.m)

----------------------------------------------------------------------------
(* Python's subscript and iteration on a decoded value *)

\* j[0].  The characters of a str are not told apart: a non-empty str yields
\* a one-character str.
Subscript0(j) ==
    CASE j.t = "list" -> IF j.v = <<>> THEN Raise("IndexError") ELSE Ok(j.v[1])
      [] j.t = "str" -> IF j.v = "" THEN Raise("IndexError") ELSE Ok(Str("c"))
      [] j.t = "dict" -> Raise("KeyError")
      [] OTHER -> Raise("TypeError")

RECURSIVE SetToSeq(_)
SetToSeq(S) ==
    IF S = {} THEN <<>>
    ELSE LET x == CHOOSE y \in S : TRUE IN <<x>> \o SetToSeq(S \ {x})

\* for x in j: the sequence of elements visited.  A dict yields its keys, a
\* non-empty str yields str elements.
Iterate(j) ==
    CASE j.t = "list" -> Ok(j.v)
      [] j.t = "str" -> Ok(IF j.v = "" THEN <<>> ELSE <<Str("c")>>)
      [] j.t = "dict" -> Ok([i \in 1..Cardinality(DOMAIN j.v) |->
                                Str(SetToSeq(DOMAIN j.v)[i])])
      [] OTHER -> Raise("TypeError")

----------------------------------------------------------------------------
(* Api: the service-hours gate and the request *)

service_start_hour == 5
service_end_hour == 23
HoursPerDay == 24

\* Api.is_service_available, with now.hour = h
is_service_available(h) == ~(h < service_start_hour \/ h >= service_end_hour)

\* What the HTTP GET of api_request can end in.  Documents is the set of
\* decoded bodies of a 200 response.
HttpOutcomes(Documents) ==
    {[kind |-> "json", body |-> d] : d \in Documents}
        \cup {[kind |-> k] : k \in {"status", "client_error", "timeout", "bad_json"}}

\* Api.api_request after the gate: the value returned for an HTTP outcome
api_request_return(outcome) ==
    IF outcome.kind = "json" THEN outcome.body ELSE Null

----------------------------------------------------------------------------
(* NationalrailSensor.parse_train_time *)

parse_time_string(t) ==
    IF IsStr(t) /\ ParserParse(t.v).ok
    THEN StrftimeHM(ParserParse(t.v))
    ELSE "Invalid time"

\* parse_train_time without the fall back to std when etd is "On time"
parse_train_time_no_std(first_service) ==
    IF ~IsDict(first_service) THEN Raise("AttributeError")
    ELSE LET etd == DictGet(first_service, "etd", Str(""))
         IN IF ~IsStr(etd) THEN Raise("AttributeError")
            ELSE LET next_train_time == Lower(etd.v)
                 IN IF next_train_time \in {"delayed", "cancelled"}
                    THEN Ok(Capitalize(next_train_time))
                    ELSE Ok(parse_time_string(Str(next_train_time)))

parse_train_time(first_service) ==
    IF ~IsDict(first_service) THEN Raise("AttributeError")
    ELSE LET etd == DictGet(first_service, "etd", Str(""))
         IN IF ~IsStr(etd) THEN Raise("AttributeError")
            ELSE LET next_train_time == Lower(etd.v)
                 IN IF next_train_time \in {"delayed", "cancelled"}
                    THEN Ok(Capitalize(next_train_time))
                    ELSE IF next_train_time = "on time"
                    THEN Ok(parse_time_string(
                                DictGet(first_service, "std", Str("Unknown"))))
                    ELSE Ok(parse_time_string(Str(next_train_time)))

----------------------------------------------------------------------------
(* NationalrailSensor.async_update, from the value api_request returned.    *)
(* Each operator gives the sensor's fields at the end of the cycle and      *)
(* whether the cycle raised out of async_update.                            *)

Outcome(st, ld, sd, r) ==
    [state |-> st, last_data |-> ld, service_data |-> sd, raised |-> r]

\* invalid_response with the stored services dropped as well
invalid_response_clears(st, ld, sd) ==
    Outcome("Error: Invalid API response", ld, EmptyList, FALSE)

\* result is not a dict
invalid_response(st, ld, sd) == Outcome("Error: Invalid API response", ld, sd, FALSE)

\* trainServices is not a list
invalid_service_data(st, ld, sd) ==
    Outcome("Error: Invalid train service data", ld, EmptyList, FALSE)

\* trainServices is an empty list
no_services(res, ld) ==
    Outcome("No train services available for this station", res, EmptyList, FALSE)

\* the try body without its except clause: the exception leaves async_update
except_handler_reraise(st, ld, sd) == Outcome(st, ld, sd, TRUE)

\* the except clause: an exception raised in the try body after
\* service_data was assigned
except_handler(st, ld, sd) ==
    Outcome("Error fetching or parsing API data", ld, sd, FALSE)

derive_state(res, st, ld, sd) ==
    LET r == parse_train_time(sd.v[1])
    IN IF r.raised THEN except_handler(st, ld, sd)
       ELSE Outcome(r.val, res, sd, FALSE)

async_update_after_request(res, st, ld, sd) ==
    IF ~IsDict(res) THEN invalid_response(st, ld, sd)
    ELSE LET new_sd == DictGet(res, "trainServices", EmptyList)
         IN IF ~IsList(new_sd) THEN invalid_service_data(st, ld, new_sd)
            ELSE IF new_sd.v = <<>> THEN no_services(res, ld)
            ELSE derive_state(res, st, ld, new_sd)

----------------------------------------------------------------------------
(* NationalrailSensor.extra_state_attributes.  The configuration entries    *)
(* of the bundle (offset, station_code, target_station_code,                *)
(* target_station_name) are constants of the sensor and are left out.       *)

Unknown == Str("Unknown")

\* one element of a calling_points comprehension of the service views
point_view(point) ==
    Dict([locationName |-> DictGet(point, "locationName", Unknown),
          st |-> DictGet(point, "st", DictGet(point, "time", Unknown)),
          et |-> DictGet(point, "et", Unknown)])

\* one element of the flattened calling_points comprehension
flat_point_view(point) ==
    Dict([locationName |-> DictGet(point, "locationName", Unknown),
          st |-> DictGet(point, "st", Unknown),
          et |-> DictGet(point, "et", Unknown)])

\* service.get("subsequentCallingPoints", [{}])[0]
first_group(service) ==
    Subscript0(DictGet(service, "subsequentCallingPoints", List(<<EmptyDict>>)))

\* the calling_points comprehension of a service view
calling_points_view(service) ==
    LET group == first_group(service)
    IN IF group.raised THEN group
       ELSE IF ~IsDict(group.val) THEN Raise("AttributeError")
       ELSE LET points == Iterate(DictGet(group.val, "callingPoint", EmptyList))
            IN IF points.raised THEN points
               ELSE IF \E i \in DOMAIN points.val : ~IsDict(points.val[i])
               THEN Raise("AttributeError")
               ELSE Ok(List([i \in DOMAIN points.val |-> point_view(points.val[i])]))

\* the view of one service: attributes["service"] and each element of
\* attributes["services"]
service_view(service) ==
    IF ~IsDict(service) THEN Raise("AttributeError")
    ELSE LET cps == calling_points_view(service)
         IN IF cps.raised THEN cps
            ELSE Ok(Dict([std |-> DictGet(service, "std", Unknown),
                          etd |-> DictGet(service, "etd", Unknown),
                          platform |-> DictGet(service, "platform", Unknown),
                          operator |-> DictGet(service, "operator", Unknown),
                          via |-> DictGet(service, "destinationVia", Str("")),
                          calling_points |-> cps.val]))

extra_state_attributes(ld, sd) ==
    LET primary == IF IsList(sd) /\ Len(sd.v) > 0
                   THEN service_view(sd.v[1])
                   ELSE Ok(EmptyDict)
        each == Iterate(sd)
    IN IF primary.raised THEN primary
       ELSE IF each.raised THEN each
       ELSE IF \E i \in DOMAIN each.val : service_view(each.val[i]).raised
       THEN service_view(each.val[
                CHOOSE i \in DOMAIN each.val :
                    /\ service_view(each.val[i]).raised
                    /\ \A j \in 1..(i - 1) : ~service_view(each.val[j]).raised])
       ELSE LET flat == DictGet(primary.val, "calling_points", EmptyList).v
            IN Ok(Dict(
                [last_refresh |-> DictGet(ld, "generatedAt", Unknown),
                 station_name |-> DictGet(ld, "locationName", Unknown),
                 destination_name |-> DictGet(ld, "filterLocationName", Unknown),
                 service |-> primary.val,
                 services |-> List([i \in DOMAIN each.val |->
                                       service_view(each.val[i]).val]),
                 calling_points |-> List([i \in DOMAIN flat |->
                                             flat_point_view(flat[i])])]))

----------------------------------------------------------------------------
(* The decoded documents the upstream API is taken to return *)

Point(name, st) == Dict([locationName |-> Str(name), st |-> Str(st), et |-> Str("On time")])
LegacyPoint(name, time) == Dict([locationName |-> Str(name), time |-> Str(time)])
Group(points) == Dict([callingPoint |-> List(points)])
Destination(crs, name) == Dict([crs |-> Str(crs), locationName |-> Str(name)])

PAD == Destination("PAD", "London Paddington")
RDG == Destination("RDG", "Reading")

TwoStops == List(<<Group(<<Point("Slough", "14:20"), LegacyPoint("Reading", "14:40")>>)>>)

SvcOnTime ==
    Dict([etd |-> Str("On time"), std |-> Str("14:05:00"), platform |-> Str("4"),
          destination |-> PAD, subsequentCallingPoints |-> TwoStops])
SvcDelayed == Dict([etd |-> Str("Delayed"), std |-> Str("14:05:00"), destination |-> RDG])
SvcCancelled == Dict([etd |-> Str("CANCELLED"), std |-> Str("9:15")])
SvcEtdTime ==
    Dict([etd |-> Str("14:32"), std |-> Str("14:05:00"),
          destination |-> List(<<PAD, RDG>>),
          subsequentCallingPoints |-> List(<<EmptyDict>>)])
SvcGarbage == Dict([etd |-> Str("garbage"), std |-> Str("14:05:00")])
SvcOnTimeBadStd == Dict([etd |-> Str("on time"), std |-> Str("garbage")])
SvcOnTimeNoStd == Dict([etd |-> Str("On time")])
SvcOnTimeNullStd == Dict([etd |-> Str("On time"), std |-> Null])
SvcNoEtd == Dict([std |-> Str("14:05:00")])
SvcNullEtd == Dict([etd |-> Null, std |-> Str("14:05:00")])
SvcNoGroups ==
    Dict([etd |-> Str("9:15"), std |-> Str("9:15"),
          subsequentCallingPoints |-> EmptyList])
NotAService == Str("x")

Board(services) ==
    Dict([generatedAt |-> Str("2024-01-01T14:00:00"), locationName |-> Str("Didcot"),
          trainServices |-> services])

\* documents whose trainServices is a list
ListBoards ==
    {Board(List(s)) : s \in
        {<<>>, <<SvcOnTime>>, <<SvcOnTime, SvcDelayed>>, <<SvcDelayed, SvcEtdTime>>,
         <<SvcDelayed, SvcGarbage>>, <<SvcCancelled>>, <<SvcEtdTime>>, <<SvcGarbage>>,
         <<SvcOnTimeBadStd>>, <<SvcOnTimeNoStd>>, <<SvcOnTimeNullStd>>, <<SvcNoEtd>>,
         <<SvcNullEtd>>, <<SvcNoGroups>>, <<SvcEtdTime, SvcNoGroups>>,
         <<NotAService>>}}

\* documents whose trainServices is absent or not a list
MalformedBoards ==
    {Dict([generatedAt |-> Str("2024-01-01T14:00:00")]),
     Board(Null), Board(Str("none")), Board(EmptyDict), Board(Num(0))}

\* decoded bodies that are not a dict
NonDicts == {Null, Str("Bad Gateway"), List(<<Num(1)>>)}

Documents == ListBoards \cup MalformedBoards \cup NonDicts

----------------------------------------------------------------------------
(* The update cycle of the sensor *)

Pending == [t |-> "pending"]
NotRead == [raised |-> FALSE, val |-> Pending]

NoState == "None"

\* the sensor as constructed
SensorFields ==
    /\ pc = "idle"
    /\ state = NoState
    /\ last_data = EmptyDict
    /\ service_data = EmptyList
    /\ logged_unavailable = FALSE
    /\ result = Pending
    /\ gates = <<>>
    /\ fetch_issued = FALSE
    /\ raised = FALSE
    /\ attributes = NotRead

SensorInit == hour \in 0..(HoursPerDay - 1) /\ SensorFields

\* The clock advances between any two steps of the program.
Tick ==
    /\ hour' = (hour + 1) % HoursPerDay
    /\ UNCHANGED <<pc, state, last_data, service_data, logged_unavailable, result,
                   gates, fetch_issued, raised, attributes>>
    /\ UNCHANGED data_vars

\* The end of a cycle in which api_request returned res
Finish(res) ==
    LET out == async_update_after_request(res, state, last_data, service_data)
    IN /\ result' = res
       /\ state' = out.state
       /\ last_data' = out.last_data
       /\ service_data' = out.service_data
       /\ raised' = out.raised
       /\ pc' = "idle"

\* async_update up to its first return: the gate of line 163
UpdateStart ==
    /\ pc = "idle"
    /\ result' = Pending
    /\ fetch_issued' = FALSE
    /\ raised' = FALSE
    /\ attributes' = NotRead
    /\ gates' = <<is_service_available(hour)>>
    /\ IF ~is_service_available(hour)
       THEN /\ state' = "No train services expected"
            /\ logged_unavailable' = TRUE
            /\ pc' = "idle"
       ELSE /\ pc' = "gate2"
            /\ UNCHANGED <<state, logged_unavailable>>
    /\ UNCHANGED <<hour, last_data, service_data>>
    /\ UNCHANGED data_vars

\* the second evaluation of the gate, line 170
CheckLogged ==
    /\ pc = "gate2"
    /\ logged_unavailable' = (logged_unavailable /\ ~is_service_available(hour))
    /\ gates' = Append(gates, is_service_available(hour))
    /\ pc' = "request"
    /\ UNCHANGED <<hour, state, last_data, service_data, result, fetch_issued,
                   raised, attributes>>
    /\ UNCHANGED data_vars

\* api_request up to the HTTP GET: the gate of api.py line 59.  When the gate
\* is False api_request returns None and async_update runs to its end.
ApiRequestGate ==
    /\ pc = "request"
    /\ gates' = Append(gates, is_service_available(hour))
    /\ IF ~is_service_available(hour)
       THEN /\ Finish(Null)
            /\ UNCHANGED fetch_issued
       ELSE /\ fetch_issued' = TRUE
            /\ pc' = "fetching"
            /\ UNCHANGED <<state, last_data, service_data, result, raised>>
    /\ UNCHANGED <<hour, logged_unavailable, attributes>>
    /\ UNCHANGED data_vars

\* the HTTP GET ends, api_request returns and async_update runs to its end
FetchReturn ==
    /\ pc = "fetching"
    /\ \E outcome \in HttpOutcomes(Documents) : Finish(api_request_return(outcome))
    /\ UNCHANGED <<hour, logged_unavailable, gates, fetch_issued, attributes>>
    /\ UNCHANGED data_vars

\* the host reads the attribute bundle between cycles
ReadAttributes ==
    /\ pc = "idle"
    /\ LET a == extra_state_attributes(last_data, service_data)
       IN attributes' = IF a.raised THEN a ELSE Ok(a.val)
    /\ UNCHANGED <<hour, pc, state, last_data, service_data, logged_unavailable,
                   result, gates, fetch_issued, raised>>
    /\ UNCHANGED data_vars

Next ==
    \/ Tick
    \/ UpdateStart
    \/ CheckLogged
    \/ ApiRequestGate
    \/ FetchReturn
    \/ ReadAttributes


----------------------------------------------------------------------------
(* ApiData: the accessors over raw_result *)

\* ApiData.get_data
get_data(raw) == IF ~Truthy(raw) THEN EmptyDict ELSE raw

\* the destination test of get_destination_data on the first element only of
\* a destination sequence
destination_matches_first_only(service, station) ==
    IF ~IsDict(service) THEN Raise("AttributeError")
    ELSE LET destinations == DictGet(service, "destination", EmptyList)
         IN IF IsList(destinations)
            THEN IF destinations.v = <<>> THEN Ok(FALSE)
                 ELSE IF ~IsDict(destinations.v[1]) THEN Raise("AttributeError")
                 ELSE Ok(DictGet(destinations.v[1], "crs", Null) = Str(station))
            ELSE IF IsDict(destinations)
            THEN Ok(DictGet(destinations, "crs", Null) = Str(station))
            ELSE Ok(FALSE)

\* the body of the loop of get_destination_data for one service: whether the
\* service is returned, or the exception raised on the way
destination_matches(service, station) ==
    IF ~IsDict(service) THEN Raise("AttributeError")
    ELSE LET destinations == DictGet(service, "destination", EmptyList)
         IN IF IsList(destinations)
            THEN LET hits == {i \in DOMAIN destinations.v :
                                \/ ~IsDict(destinations.v[i])
                                \/ DictGet(destinations.v[i], "crs", Null) = Str(station)}
                     first == CHOOSE i \in hits : \A j \in hits : i <= j
                 IN IF hits = {} THEN Ok(FALSE)
                    ELSE IF ~IsDict(destinations.v[first]) THEN Raise("AttributeError")
                    ELSE Ok(TRUE)
            ELSE IF IsDict(destinations)
            THEN Ok(DictGet(destinations, "crs", Null) = Str(station))
            ELSE Ok(FALSE)

\* the loop of get_destination_data from the i-th service on
RECURSIVE scan_services(_, _, _)
scan_services(services, i, station) ==
    IF i > Len(services) THEN Ok(EmptyDict)
    ELSE LET m == destination_matches(services[i], station)
         IN IF m.raised THEN m
            ELSE IF m.val THEN Ok(services[i])
            ELSE scan_services(services, i + 1, station)

\* ApiData.get_destination_data
get_destination_data(raw, station) ==
    LET services == Iterate(DictGet(get_data(raw), "trainServices", EmptyList))
    IN IF services.raised THEN services
       ELSE scan_services(services.val, 1, station)

\* dict.copy() followed by pop(key, None)
CopyWithout(d, key) == Dict([k \in DOMAIN d.v \ {key} |-> d.v[k]])

\* the value returned by a call and raw_result after it
Returns(out, raw) == [out |-> out, raw_result |-> raw]

\* get_service_details popping the key from the stored service instead of
\* from a copy
get_service_details_in_place(raw, crs) ==
    LET service == get_destination_data(raw, crs)
    IN IF service.raised THEN Returns(service, raw)
       ELSE IF Truthy(service.val)
       THEN LET popped == CopyWithout(service.val, "subsequentCallingPoints")
                services == raw.v.trainServices.v
                at == CHOOSE i \in DOMAIN services :
                        /\ services[i] = service.val
                        /\ \A j \in 1..(i - 1) : services[j] # service.val
            IN Returns(Ok(popped),
                       Dict([raw.v EXCEPT !.trainServices =
                                List([services EXCEPT ![at] = popped])]))
       ELSE Returns(Ok(EmptyDict), raw)

\* ApiData.get_service_details
get_service_details(raw, crs) ==
    LET service == get_destination_data(raw, crs)
    IN IF service.raised THEN Returns(service, raw)
       ELSE IF Truthy(service.val)
       THEN Returns(Ok(CopyWithout(service.val, "subsequentCallingPoints")), raw)
       ELSE Returns(Ok(EmptyDict), raw)

\* ApiData.get_calling_points
get_calling_points(raw, station) ==
    LET service == get_destination_data(raw, station)
    IN IF service.raised THEN service
       ELSE LET calling_points_group ==
                    DictGet(service.val, "subsequentCallingPoints", EmptyList)
            IN IF Truthy(calling_points_group) /\ IsList(calling_points_group)
               THEN LET first_group_ == calling_points_group.v[1]
                    IN IF ~IsDict(first_group_) THEN Raise("AttributeError")
                       ELSE IF IsList(DictGet(first_group_, "callingPoint", EmptyList))
                       THEN Ok(DictGet(first_group_, "callingPoint", EmptyList))
                       ELSE Ok(EmptyList)
               ELSE Ok(EmptyList)

\* ApiData.get_station_name: the value returned and _station_name after it
get_station_name(raw, cache) ==
    LET name == IF ~Truthy(cache)
                THEN DictGet(get_data(raw), "locationName", Str("Unknown Station"))
                ELSE cache
    IN [out |-> Ok(name), station_name |-> name]

\* ApiData.get_destination_name
get_destination_name(raw, crs) ==
    LET service == get_destination_data(raw, crs)
    IN IF service.raised THEN service
       ELSE LET destinations == DictGet(service.val, "destination", EmptyList)
            IN IF IsList(destinations)
               THEN LET first == Subscript0(destinations)
                    IN IF first.raised THEN first
                       ELSE IF ~IsDict(first.val) THEN Raise("AttributeError")
                       ELSE Ok(DictGet(first.val, "locationName",
                                       Str("Unknown Destination")))
               ELSE IF IsDict(destinations)
               THEN Ok(DictGet(destinations, "locationName", Str("Unknown Destination")))
               ELSE Ok(Str("Unknown Destination"))

----------------------------------------------------------------------------
(* The documents handed to populate, and the calls on ApiData *)

SvcNoDestinationName ==
    Dict([etd |-> Str("On time"), std |-> Str("9:15"),
          destination |-> Dict([crs |-> Str("PAD")])])
SvcNoDestinations ==
    Dict([etd |-> Str("On time"), std |-> Str("9:15"), destination |-> EmptyList])

\* boards whose trainServices is a list of services
ServiceBoards ==
    {Board(List(s)) : s \in
        {<<SvcOnTime, SvcEtdTime, SvcDelayed>>, <<SvcDelayed, SvcEtdTime, SvcOnTime>>,
         <<SvcEtdTime>>, <<SvcCancelled, SvcDelayed>>,
         <<SvcNoDestinations, SvcNoDestinationName>>}}
        \cup {Dict([trainServices |-> List(<<SvcOnTime>>)])}

\* boards whose trainServices is absent, not a list, or empty
NoServiceBoards ==
    {EmptyDict, Dict([locationName |-> Str("Oxford")]), Board(EmptyList), Board(Null),
     Board(Str("none")), Board(Str("")), Board(EmptyDict),
     Board(Dict([error |-> Str("none")])), Board(Num(0))}

RawBoards == ServiceBoards \cup NoServiceBoards
Targets == {"PAD", "RDG", "XXX"}

MaxDetailsCalls == 2

DataInit ==
    /\ raw_result = EmptyDict
    /\ station_name_cache = Str("")
    /\ populated = EmptyDict
    /\ details_calls = 0
    /\ name_read_before = FALSE
    /\ ret = [op |-> "none"]

\* ApiData.populate.  _last_update, a timestamp no accessor reads, is left out.
Populate ==
    /\ \E json_data \in RawBoards :
        /\ raw_result' = json_data
        /\ populated' = json_data
    /\ details_calls' = 0
    /\ ret' = [op |-> "populate"]
    /\ UNCHANGED <<station_name_cache, name_read_before>>
    /\ UNCHANGED sensor_vars

GetDestinationData ==
    /\ \E station \in Targets :
        ret' = [op |-> "get_destination_data", arg |-> station,
                out |-> get_destination_data(raw_result, station)]
    /\ UNCHANGED <<raw_result, station_name_cache, populated, details_calls,
                   name_read_before>>
    /\ UNCHANGED sensor_vars

GetServiceDetails ==
    /\ details_calls < MaxDetailsCalls
    /\ \E crs \in Targets :
        LET r == get_service_details(raw_result, crs)
        IN /\ ret' = [op |-> "get_service_details", arg |-> crs, out |-> r.out]
           /\ raw_result' = r.raw_result
    /\ details_calls' = details_calls + 1
    /\ UNCHANGED <<station_name_cache, populated, name_read_before>>
    /\ UNCHANGED sensor_vars

GetCallingPoints ==
    /\ \E station \in Targets :
        ret' = [op |-> "get_calling_points", arg |-> station,
                out |-> get_calling_points(raw_result, station)]
    /\ UNCHANGED <<raw_result, station_name_cache, populated, details_calls,
                   name_read_before>>
    /\ UNCHANGED sensor_vars

GetStationName ==
    /\ LET r == get_station_name(raw_result, station_name_cache)
       IN /\ ret' = [op |-> "get_station_name", out |-> r.out,
                     read_before |-> name_read_before]
          /\ station_name_cache' = r.station_name
    /\ name_read_before' = (name_read_before \/ "locationName" \in DOMAIN raw_result.v)
    /\ UNCHANGED <<raw_result, populated, details_calls>>
    /\ UNCHANGED sensor_vars

GetDestinationName ==
    /\ \E crs \in Targets :
        ret' = [op |-> "get_destination_name", arg |-> crs,
                out |-> get_destination_name(raw_result, crs)]
    /\ UNCHANGED <<raw_result, station_name_cache, populated, details_calls,
                   name_read_before>>
    /\ UNCHANGED sensor_vars

Init == SensorInit /\ DataInit
Spec == Init /\ [][Next]_vars

NextData ==
    \/ Populate
    \/ GetDestinationData
    \/ GetServiceDetails
    \/ GetCallingPoints
    \/ GetStationName
    \/ GetDestinationName

\* ApiData on its own: the sensor does not use it and stays as constructed
InitData == hour = 0 /\ SensorFields /\ DataInit
SpecData == InitData /\ [][NextData]_vars

----------------------------------------------------------------------------
(* Properties of the update cycle *)

\* a cycle has run to its end, skipped or not
CycleDone == pc = "idle" /\ gates # <<>>
\* a cycle has run to its end and api_request returned in it
RequestDone == pc = "idle" /\ result # Pending
GateFalseSeen == \E i \in DOMAIN gates : ~gates[i]

\* C1: a cycle in which api_request returns no dict (None on a timeout, a
\* non-200 status, a transport error, malformed JSON or a closed gate, or a
\* decoded body that is no mapping) does not raise, ends with state
\* "Error: Invalid API response", and leaves last_data and service_data as
\* they were: no step inside a cycle changes them, and neither does the step
\* that ends such a cycle.
C1_InvalidResponseKeepsData ==
    [][/\ pc' # "idle" => (last_data' = last_data /\ service_data' = service_data)
       /\ (pc # "idle" /\ pc' = "idle" /\ ~IsDict(result'))
            => /\ state' = "Error: Invalid API response"
               /\ ~raised'
               /\ last_data' = last_data
               /\ service_data' = service_data]_vars

C1_Witness ==
    /\ RequestDone
    /\ fetch_issued
    /\ ~IsDict(result)
    /\ state = "Error: Invalid API response"
    /\ last_data # EmptyDict
    /\ service_data # EmptyList

\* C2: the HTTP fetch is issued only after the gate evaluated true, and a
\* cycle in which some evaluation of the gate returned false ends with state
\* "No train services expected", whatever the clock does between the
\* evaluations.
C2_GateFalseEndsNoServicesExpected ==
    /\ fetch_issued => (gates # <<>> /\ gates[Len(gates)])
    /\ (CycleDone /\ GateFalseSeen) => state = "No train services expected"

\* The display states the specification documents, besides the HH:MM times
DocumentedStates ==
    {"Delayed", "Cancelled", "Invalid time",
     "No train services available for this station",
     "No train services expected",
     "Error: Invalid API response",
     "Error: Invalid train service data"}

HHMM == {TwoDigits(h) \o ":" \o TwoDigits(m) : h \in 0..23, m \in 0..59}

\* The expected display of a time string: the examples of the specification
ExpectedTime(j) ==
    IF ~IsStr(j) THEN "Invalid time"
    ELSE CASE j.v = "14:05:00" -> "14:05"
           [] j.v = "14:32" -> "14:32"
           [] j.v = "9:15" -> "09:15"
           [] OTHER -> "Invalid time"

\* The expected state for a first service that is a mapping whose etd is
\* the string e (the empty string when etd is absent)
ExpectedForEtd(service, e) ==
    CASE e \in {"Delayed", "delayed", "DELAYED"} -> "Delayed"
      [] e \in {"Cancelled", "cancelled", "CANCELLED"} -> "Cancelled"
      [] e \in {"On time", "on time", "ON TIME"} ->
            ExpectedTime(IF "std" \in DOMAIN service.v THEN service.v.std ELSE Null)
      [] OTHER -> ExpectedTime(Str(e))

WellTyped(service) ==
    IsDict(service) /\ ("etd" \in DOMAIN service.v => IsStr(service.v.etd))

\* The expected state as the claim words it: every etd that is not one of the
\* three status words is parsed, and gives "Invalid time" when that fails
ExpectedStateOriginal(services) ==
    IF services = <<>> THEN "No train services available for this station"
    ELSE IF WellTyped(services[1]) /\ "etd" \in DOMAIN services[1].v
    THEN ExpectedForEtd(services[1], services[1].v.etd.v)
    ELSE IF IsDict(services[1])
    THEN ExpectedForEtd(services[1], "")
    ELSE "Invalid time"

ExpectedStateAmended(services) ==
    IF services # <<>> /\ ~WellTyped(services[1])
    THEN "Error fetching or parsing API data"
    ELSE ExpectedStateOriginal(services)

\* the cycle fetched a mapping whose trainServices is a sequence
FetchedListBoard ==
    /\ RequestDone
    /\ IsDict(result)
    /\ "trainServices" \in DOMAIN result.v
    /\ IsList(result.v.trainServices)

\* C3 as stated: after a cycle that fetched a mapping whose trainServices is a
\* sequence, the state is the one the first service alone determines, "Invalid
\* time" whenever its etd is no status word and does not parse.
C3_StateFromFirstServiceOriginal ==
    FetchedListBoard => state = ExpectedStateOriginal(result.v.trainServices.v)

\* C3 amended: as stated when the first service is a mapping whose etd is
\* absent or a string; when the first service is not a mapping or its etd is
\* not a string, the state is "Error fetching or parsing API data".  In both
\* cases the state depends on the first service only.
C3_StateFromFirstService ==
    FetchedListBoard => state = ExpectedStateAmended(result.v.trainServices.v)

C3_Witness ==
    /\ FetchedListBoard
    /\ Len(result.v.trainServices.v) = 2
    /\ result.v.trainServices.v[1] = SvcDelayed
    /\ result.v.trainServices.v[2] = SvcEtdTime
    /\ state = "Delayed"

\* C4 as stated: every cycle ends without raising and with a documented
\* display state.
C4_DocumentedStateOriginal ==
    CycleDone => (~raised /\ (state \in DocumentedStates \/ state \in HHMM))

\* C4 amended: every cycle ends without raising and with a documented display
\* state or "Error fetching or parsing API data".
C4_KnownState ==
    CycleDone =>
        /\ ~raised
        /\ \/ state \in DocumentedStates
           \/ state \in HHMM
           \/ state = "Error fetching or parsing API data"

C4_Witness ==
    /\ FetchedListBoard
    /\ result.v.trainServices = List(<<SvcNullEtd>>)
    /\ state = "Error fetching or parsing API data"
    /\ ~raised

\* The calling points the bundle is to show for a service: those of group 0
\* of subsequentCallingPoints, none when there is no usable group
ExpectedPointCount(service) ==
    LET groups == DictGet(service, "subsequentCallingPoints", EmptyList)
    IN IF IsList(groups) /\ groups.v # <<>> /\ IsDict(groups.v[1])
          /\ IsList(DictGet(groups.v[1], "callingPoint", EmptyList))
       THEN Len(DictGet(groups.v[1], "callingPoint", EmptyList).v)
       ELSE 0

\* C8: building the attribute bundle from the service_data an update cycle
\* left never raises, and the view of each service holds the calling points
\* of group 0 of its subsequentCallingPoints, none when that is absent, empty
\* or without a usable group.  Stated for service_data whose elements are
\* mappings.
C8_AttributesNeverRaise ==
    (/\ attributes # NotRead
     /\ \A i \in DOMAIN service_data.v : IsDict(service_data.v[i]))
        => /\ ~attributes.raised
           /\ \A i \in DOMAIN service_data.v :
                Len(attributes.val.v.services.v[i].v.calling_points.v)
                    = ExpectedPointCount(service_data.v[i])

----------------------------------------------------------------------------
(* Properties of ApiData *)

Called(op) == ret.op = op

\* the service list of a document, when it has one
ServicesOf(raw) == raw.v.trainServices.v

\* whether a service's destination names the target: a single record whose
\* crs is the target, or a sequence with such a record
Matches(service, target) ==
    /\ "destination" \in DOMAIN service.v
    /\ \/ /\ IsDict(service.v.destination)
          /\ DictGet(service.v.destination, "crs", Null) = Str(target)
       \/ /\ IsList(service.v.destination)
          /\ \E i \in DOMAIN service.v.destination.v :
                DictGet(service.v.destination.v[i], "crs", Null) = Str(target)

\* C5: on a board whose trainServices is a list of services,
\* get_destination_data returns the first service in upstream order whose
\* destination (single record or sequence) matches the target, and an empty
\* mapping when none matches.
C5_FirstMatchingService ==
    (Called("get_destination_data") /\ raw_result \in ServiceBoards) =>
        /\ ~ret.out.raised
        /\ LET services == ServicesOf(raw_result)
               matching == {i \in DOMAIN services : Matches(services[i], ret.arg)}
           IN IF matching = {} THEN ret.out.val = EmptyDict
              ELSE \E i \in matching :
                    /\ \A j \in matching : i <= j
                    /\ ret.out.val = services[i]

\* a target of the second destination of a sequence returns that service,
\* and the later service matching the same target is passed over
C5_Witness ==
    /\ Called("get_destination_data")
    /\ ret.arg = "RDG"
    /\ raw_result = Board(List(<<SvcOnTime, SvcEtdTime, SvcDelayed>>))
    /\ ret.out = Ok(SvcEtdTime)

\* the document has no usable service list
NoServiceList(raw) ==
    \/ "trainServices" \notin DOMAIN raw.v
    \/ ~IsList(raw.v.trainServices)
    \/ raw.v.trainServices.v = <<>>

\* C6: when trainServices is absent, not a sequence or empty,
\* get_destination_data returns an empty mapping and get_calling_points an
\* empty sequence, for every target, without raising.
C6_EmptyOnNoServiceList ==
    NoServiceList(raw_result) =>
        /\ Called("get_destination_data") => ret.out = Ok(EmptyDict)
        /\ Called("get_calling_points") => ret.out = Ok(EmptyList)

\* C7: get_destination_name never raises and returns a string: the
\* locationName of the matched service's destination, and "Unknown
\* Destination" when no service matches, the board is empty, the destination
\* sequence is empty or locationName is missing.
C7_DestinationNameIsString ==
    Called("get_destination_name") =>
        /\ ~ret.out.raised
        /\ IsStr(ret.out.val)
        /\ (NoServiceList(raw_result)
                \/ \A i \in DOMAIN ServicesOf(raw_result) :
                        ~Matches(ServicesOf(raw_result)[i], ret.arg))
            => ret.out.val = Str("Unknown Destination")

\* C9: get_service_details returns a mapping without subsequentCallingPoints,
\* and the stored document stays the one handed to populate, so that
\* get_destination_data still returns the stored service, calling points
\* included, after any number of get_service_details calls.
C9_DetailsLeaveBoardIntact ==
    /\ raw_result = populated
    /\ (Called("get_service_details") /\ ~ret.out.raised)
        => "subsequentCallingPoints" \notin DOMAIN ret.out.val.v
    /\ (Called("get_destination_data") /\ populated \in ServiceBoards
            /\ ret.out # Ok(EmptyDict))
        => /\ ~ret.out.raised
           /\ \E i \in DOMAIN ServicesOf(populated) :
                ret.out.val = ServicesOf(populated)[i]

C9_Witness ==
    /\ Called("get_destination_data")
    /\ details_calls = MaxDetailsCalls
    /\ ret.arg = "PAD"
    /\ populated = Board(List(<<SvcOnTime, SvcEtdTime, SvcDelayed>>))
    /\ ret.out = Ok(SvcOnTime)
    /\ "subsequentCallingPoints" \in DOMAIN ret.out.val.v

\* C10: the station name is cached only by a read that found a locationName:
\* a call made while the document has none returns "Unknown Station", and the
\* first call made while the document has one returns that locationName.
C10_OnlySuccessfulReadCached ==
    (Called("get_station_name") /\ ~ret.read_before) =>
        ret.out = Ok(DictGet(raw_result, "locationName", Str("Unknown Station")))

----------------------------------------------------------------------------
(* The attribute bundle's two sources *)

\* the service list of the document kept in last_data, empty when it has none
ServicesOfLastData ==
    IF "trainServices" \in DOMAIN last_data.v /\ IsList(last_data.v.trainServices)
    THEN last_data.v.trainServices
    ELSE EmptyList

\* C11: after any sequence of update cycles the attribute bundle is built
\* from a single document: service_data, which feeds the service, services
\* and calling_points views, is the trainServices list of last_data, which
\* feeds last_refresh, station_name and destination_name (and is empty when
\* last_data has no services).
C11_BundleFromOneDocument ==
    pc = "idle" => service_data = ServicesOfLastData

====
